---- MODULE Spec2Model ----
(***************************************************************************)
(* shardeum-mcp-server: the JSON-RPC client (makeRpcCall), the 17 tool     *)
(* handlers registered by registerTools and the server start-up, as a      *)
(* state machine over tool invocations.                                    *)
(*                                                                         *)
(* Text is a sequence of symbols.  A symbol is a one-character string; a   *)
(* fixed piece of a template literal ("Error: Failed to get balance. ") or *)
(* an opaque word ("latest", a remote error message) is one atomic symbol. *)
(* Hex strings, addresses, hashes, decimal numbers and JSON text are kept  *)
(* character by character.                                                 *)
(***************************************************************************)
EXTENDS Integers, Sequences, FiniteSets, TLC

(***************************************************************************)
(* JavaScript values.  Every value is a record of the same shape: t its    *)
(* type, n a number's (small integer) value or a boolean's 0/1, s a        *)
(* string's symbols (or a property's key), xs an array's elements, an      *)
(* object's properties (in insertion order) or a property's value.         *)
(***************************************************************************)
JsVal(t, n, s, xs) == [t |-> t, n |-> n, s |-> s, xs |-> xs]

Undefined == JsVal("undefined", 0, <<>>, <<>>)

Null == JsVal("null", 0, <<>>, <<>>)

Bool(b) == JsVal("bool", IF b THEN 1 ELSE 0, <<>>, <<>>)

Num(n) == JsVal("num", n, <<>>, <<>>)

Str(s) == JsVal("str", 0, s, <<>>)

Arr(xs) == JsVal("arr", 0, <<>>, xs)

KV(k, v) == JsVal("kv", 0, <<k>>, <<v>>)

Obj(kvs) == JsVal("obj", 0, <<>>, kvs)

\* o.key: the property's value, undefined when o has no such property (the
\* last one wins when a JSON body repeats a key).
GetField(o, key) ==
  IF o.t # "obj" THEN Undefined
  ELSE LET hits == {i \in 1..Len(o.xs) : o.xs[i].s = <<key>>}
       IN IF hits = {} THEN Undefined
          ELSE o.xs[CHOOSE i \in hits : \A j \in hits : j <= i].xs[1]

\* ToBoolean: what `if (x)` tests.
Truthy(v) ==
  CASE v.t = "undefined" -> FALSE
    [] v.t = "null" -> FALSE
    [] v.t = "bool" -> v.n = 1
    [] v.t = "num" -> v.n # 0
    [] v.t = "str" -> v.s # <<>>
    [] OTHER -> TRUE

(***************************************************************************)
(* Sequences of symbols.                                                   *)
(***************************************************************************)
Rep(c, n) == [i \in 1..n |-> c]

\* sub occurs in text as a contiguous run of symbols.
Contains(text, sub) ==
  \E i \in 0..(Len(text) - Len(sub)) :
    \A j \in 1..Len(sub) : text[i + j] = sub[j]

RECURSIVE Concat(_)
Concat(ss) == IF ss = <<>> THEN <<>> ELSE Head(ss) \o Concat(Tail(ss))

(***************************************************************************)
(* Decimal numerals.  A natural number of any size is its decimal digits,  *)
(* most significant first, without leading zeros (zero is <<0>>): the      *)
(* balances of the chain exceed every machine integer.                     *)
(***************************************************************************)
DigitSyms == <<"0", "1", "2", "3", "4", "5", "6", "7", "8", "9">>

DecChars(dec) == [i \in 1..Len(dec) |-> DigitSyms[dec[i] + 1]]

StripLeadingZeros(ds) ==
  LET nz == {i \in 1..Len(ds) : ds[i] # 0}
  IN IF Len(ds) = 0 THEN ds
     ELSE IF nz = {} THEN <<0>>
     ELSE SubSeq(ds, CHOOSE i \in nz : \A j \in nz : i <= j, Len(ds))

\* dec * m + a for small m and a (at most 16), digit by digit from the right.
RECURSIVE MulAddFrom(_, _, _, _)
MulAddFrom(dec, m, carry, i) ==
  IF i = 0
  THEN (IF carry = 0 THEN <<>>
        ELSE IF carry < 10 THEN <<carry>>
        ELSE <<carry \div 10, carry % 10>>)
  ELSE LET v == dec[i] * m + carry
       IN Append(MulAddFrom(dec, m, v \div 10, i - 1), v % 10)

MulAdd(dec, m, a) == StripLeadingZeros(MulAddFrom(dec, m, a, Len(dec)))

\* The digits of a small natural number (an argument, a JSON number).
RECURSIVE NatDec(_)
NatDec(n) == IF n < 10 THEN <<n>> ELSE Append(NatDec(n \div 10), n % 10)

(***************************************************************************)
(* IEEE-754 doubles that hold integers: parseInt's result.  A double is    *)
(* kept as the binary digits of its magnitude, most significant first.     *)
(***************************************************************************)
\* The significand of a Number: 53 binary digits.
MantissaBits == 53

HexLower ==
  <<"0", "1", "2", "3", "4", "5", "6", "7", "8", "9", "a", "b", "c", "d", "e", "f">>

HexUpper ==
  <<"0", "1", "2", "3", "4", "5", "6", "7", "8", "9", "A", "B", "C", "D", "E", "F">>

\* [a-fA-F0-9]
IsHexChar(c) == \E i \in 1..16 : HexLower[i] = c \/ HexUpper[i] = c

HexVal(c) == (CHOOSE i \in 1..16 : HexLower[i] = c \/ HexUpper[i] = c) - 1

NibbleBits(v) == <<v \div 8, (v \div 4) % 2, (v \div 2) % 2, v % 2>>

\* The binary digits of a string of hex digits, four for each.
HexBits(hs) ==
  [i \in 1..(4 * Len(hs)) |-> NibbleBits(HexVal(hs[(i + 3) \div 4]))[((i - 1) % 4) + 1]]

\* bits + 1
BitsInc(bits) ==
  LET zs == {i \in 1..Len(bits) : bits[i] = 0}
  IN IF zs = {} THEN <<1>> \o Rep(0, Len(bits))
     ELSE LET k == CHOOSE i \in zs : \A j \in zs : j <= i
          IN [i \in 1..Len(bits) |-> IF i < k THEN bits[i] ELSE IF i = k THEN 1 ELSE 0]

\* head, the first 53 digits, rounded by the digits after them: up when they
\* are more than half a unit of head's last place, or half and head is odd.
RoundHead(head, tail) ==
  IF tail[1] = 1 /\ (head[MantissaBits] = 1 \/ \E i \in 2..Len(tail) : tail[i] = 1)
  THEN BitsInc(head) \o Rep(0, Len(tail))
  ELSE head \o Rep(0, Len(tail))

\* The nearest double to the integer with binary digits b (no leading zero),
\* ties to even.
RoundBits(b) ==
  IF Len(b) <= MantissaBits THEN b
  ELSE RoundHead(SubSeq(b, 1, MantissaBits), SubSeq(b, MantissaBits + 1, Len(b)))

RoundToDouble(bits) == RoundBits(StripLeadingZeros(bits))

\* n * 16 + v, for a decimal numeral n; the fold of it over hex digit values.
RECURSIVE NibblesDec(_)
NibblesDec(vs) ==
  IF vs = <<>> THEN <<0>>
  ELSE MulAdd(NibblesDec(SubSeq(vs, 1, Len(vs) - 1)), 16, vs[Len(vs)])

\* The exact value of a string of hex digits.
HexDec(hs) == NibblesDec([i \in 1..Len(hs) |-> HexVal(hs[i])])

\* The exact value of a string of binary digits.
BitsDec(bits) ==
  LET pad == Rep(0, (4 - (Len(bits) % 4)) % 4) \o bits
  IN NibblesDec([i \in 1..(Len(pad) \div 4) |->
       8 * pad[4 * i - 3] + 4 * pad[4 * i - 2] + 2 * pad[4 * i - 1] + pad[4 * i]])

(***************************************************************************)
(* Numbers as the hex-quantity handlers compute them: NaN, or a sign and   *)
(* the binary digits of an integer-valued double.                          *)
(***************************************************************************)
NaN == [nan |-> TRUE, neg |-> FALSE, bits |-> <<0>>]

Number(neg, bits) == [nan |-> FALSE, neg |-> neg, bits |-> bits]

\* String(v), as a template literal or parseInt converts its operand.
RECURSIVE ToStr(_)
ToStr(v) ==
  CASE v.t = "undefined" -> <<"u", "n", "d", "e", "f", "i", "n", "e", "d">>
    [] v.t = "null" -> <<"n", "u", "l", "l">>
    [] v.t = "bool" ->
         (IF v.n = 1 THEN <<"t", "r", "u", "e">> ELSE <<"f", "a", "l", "s", "e">>)
    [] v.t = "num" ->
         (IF v.n < 0 THEN <<"-">> \o DecChars(NatDec(-v.n)) ELSE DecChars(NatDec(v.n)))
    [] v.t = "str" -> v.s
    [] v.t = "arr" ->
         Concat([i \in 1..Len(v.xs) |->
           (IF i > 1 THEN <<",">> ELSE <<>>)
           \o (IF v.xs[i].t \in {"undefined", "null"} THEN <<>> ELSE ToStr(v.xs[i]))])
    [] OTHER -> <<"[", "object Object", "]">>

\* The first index from i on whose symbol is not in `skipped`, Len + 1 if none.
FirstNotIn(str, i, skipped) ==
  IF \A j \in i..Len(str) : str[j] \in skipped THEN Len(str) + 1
  ELSE CHOOSE j \in i..Len(str) :
         str[j] \notin skipped /\ \A k \in i..(j - 1) : str[k] \in skipped

HexChars == {HexLower[i] : i \in 1..16} \cup {HexUpper[i] : i \in 1..16}

\* The hex digits str[d..e-1], read as a number; NaN when there is none.
ReadHexDigits(str, neg, d, e) ==
  IF e = d THEN NaN ELSE Number(neg, RoundToDouble(HexBits(SubSeq(str, d, e - 1))))

\* The digits start at d: the longest run of hex digits is read, the rest of
\* the string is ignored.
ReadHexFrom(str, neg, d) == ReadHexDigits(str, neg, d, FirstNotIn(str, d, HexChars))

\* A 0x or 0X at c is taken off.
ReadPrefixed(str, neg, c) ==
  ReadHexFrom(str, neg,
    IF c + 1 <= Len(str) /\ str[c] = "0" /\ str[c + 1] \in {"x", "X"} THEN c + 2 ELSE c)

\* A sign at b is taken off.
ReadSigned(str, b) ==
  ReadPrefixed(str, b <= Len(str) /\ str[b] = "-",
    IF b <= Len(str) /\ str[b] \in {"-", "+"} THEN b + 1 ELSE b)

\* Leading white space is skipped.
ReadNumber(str) == ReadSigned(str, FirstNotIn(str, 1, {" ", "\n", "\t", "\r"}))

\* parseInt(v, 16): the operand is converted to a string; white space, a sign
\* and a 0x prefix are taken off; the longest run of hex digits is read and
\* rounded to the nearest double.
parseInt16(v) == ReadNumber(ToStr(v))

\* String(x) of a parseInt result.  An integer-valued double is printed with
\* all its digits; this is what Number::toString yields up to 2^54, beyond
\* which it prints the shortest digits that read back as the same double.
NumberChars(x) ==
  IF x.nan THEN <<"N", "a", "N">>
  ELSE (IF x.neg /\ x.bits # <<0>> THEN <<"-">> ELSE <<>>) \o DecChars(BitsDec(x.bits))

\* dec + 1
DecInc(dec) ==
  LET lt == {i \in 1..Len(dec) : dec[i] # 9}
  IN IF lt = {} THEN <<1>> \o Rep(0, Len(dec))
     ELSE LET k == CHOOSE i \in lt : \A j \in lt : j <= i
          IN [i \in 1..Len(dec) |->
               IF i < k THEN dec[i] ELSE IF i = k THEN dec[i] + 1 ELSE 0]

\* round(dec / 10^14), halves up: the number of 10^-4 units in dec / 10^18.
Units4(dec) ==
  LET L == Len(dec)
      q == IF L > 14 THEN SubSeq(dec, 1, L - 14) ELSE <<0>>
      r == IF L >= 14 THEN dec[L - 13] ELSE 0
  IN IF r >= 5 THEN DecInc(q) ELSE q

\* The text of u units of 10^-4: an integer part, a point and four decimals.
Fixed4Chars(u) ==
  LET p == IF Len(u) < 5 THEN Rep(0, 5 - Len(u)) \o u ELSE u
  IN DecChars(SubSeq(p, 1, Len(p) - 4)) \o <<".">> \o DecChars(SubSeq(p, Len(p) - 3, Len(p)))

\* (x / 1e18).toFixed(4).  The quotient is taken exactly; the double nearest
\* to it differs by less than one part in 2^53.
EthFixed4(x) ==
  IF x.nan THEN <<"N", "a", "N">>
  ELSE (IF x.neg /\ x.bits # <<0>> THEN <<"-">> ELSE <<>>)
       \o Fixed4Chars(Units4(BitsDec(x.bits)))

(***************************************************************************)
(* JSON.stringify(value, null, 2) and JSON.parse.                          *)
(***************************************************************************)
\* A string's symbols between double quotes, the quote, the backslash and the
\* line break escaped.
Quote(str) ==
  <<"\"">>
  \o Concat([i \in 1..Len(str) |->
       CASE str[i] = "\"" -> <<"\\", "\"">>
         [] str[i] = "\\" -> <<"\\", "\\">>
         [] str[i] = "\n" -> <<"\\", "n">>
         [] OTHER -> <<str[i]>>])
  \o <<"\"">>

\* The properties and elements stringify writes: a property whose value is
\* undefined is left out.
Written(v) ==
  IF v.t = "obj" THEN SelectSeq(v.xs, LAMBDA kv : kv.xs[1].t # "undefined") ELSE v.xs

\* The serialisation of a value nested `depth` deep, two spaces a level.
RECURSIVE Serialize(_, _)
Serialize(v, depth) ==
  LET inner == <<"\n">> \o Rep(" ", 2 * (depth + 1))
      outer == <<"\n">> \o Rep(" ", 2 * depth)
      items == Written(v)
  IN CASE v.t \in {"null", "undefined"} -> <<"n", "u", "l", "l">>
       [] v.t \in {"bool", "num"} -> ToStr(v)
       [] v.t = "str" -> Quote(v.s)
       [] v.t = "arr" ->
            (IF items = <<>> THEN <<"[", "]">>
             ELSE <<"[">>
                  \o Concat([i \in 1..Len(items) |->
                       (IF i > 1 THEN <<",">> ELSE <<>>) \o inner
                       \o Serialize(items[i], depth + 1)])
                  \o outer \o <<"]">>)
       [] OTHER ->
            (IF items = <<>> THEN <<"{", "}">>
             ELSE <<"{">>
                  \o Concat([i \in 1..Len(items) |->
                       (IF i > 1 THEN <<",">> ELSE <<>>) \o inner
                       \o Quote(items[i].s) \o <<":", " ">>
                       \o Serialize(items[i].xs[1], depth + 1)])
                  \o outer \o <<"}">>)

\* JSON.stringify(v, null, 2): a string, or undefined for undefined.
JSONstringify(v) == IF v.t = "undefined" THEN Undefined ELSE Str(Serialize(v, 0))

\* A parse step's answer: whether it read something, what, and where it stopped.
Parsed(ok, v, i) == [ok |-> ok, v |-> v, i |-> i]

ParseFail == Parsed(FALSE, Undefined, 0)

SkipWs(text, i) == FirstNotIn(text, i, {" ", "\n", "\t", "\r"})

IsDigit(c) == \E d \in 1..10 : DigitSyms[d] = c

DigitVal(c) == (CHOOSE d \in 1..10 : DigitSyms[d] = c) - 1

\* text[i..] spells the word w.
Spells(text, i, w) ==
  i + Len(w) - 1 <= Len(text) /\ \A j \in 1..Len(w) : text[i + j - 1] = w[j]

\* The digits from i on, as a number; acc is the value read so far.
RECURSIVE ParseDigits(_, _, _)
ParseDigits(text, i, acc) ==
  IF i <= Len(text) /\ IsDigit(text[i])
  THEN ParseDigits(text, i + 1, 10 * acc + DigitVal(text[i]))
  ELSE Parsed(TRUE, Num(acc), i)

\* How many backslashes stand in a row right before position p, from i on.
BackslashRun(text, i, p) ==
  p - 1 - (CHOOSE k \in (i - 1)..(p - 1) :
             /\ k = i - 1 \/ text[k] # "\\"
             /\ \A m \in (k + 1)..(p - 1) : text[m] = "\\")

\* Position p of a string literal that starts at i follows an escaping backslash.
Escaped(text, i, p) == BackslashRun(text, i, p) % 2 = 1

\* The closing quote of the string literal that starts at i: 0 when there is none.
ClosingQuote(text, i) ==
  IF \E p \in i..Len(text) : text[p] = "\"" /\ ~Escaped(text, i, p)
  THEN CHOOSE p \in i..Len(text) :
         /\ text[p] = "\"" /\ ~Escaped(text, i, p)
         /\ \A q \in i..(p - 1) : ~(text[q] = "\"" /\ ~Escaped(text, i, q))
  ELSE 0

\* The symbols a string literal's characters i..(close - 1) stand for.
Unescaped(text, i, close) ==
  LET kept == SelectSeq([k \in 1..(close - i) |-> i + k - 1],
                        LAMBDA p : text[p] # "\\" \/ Escaped(text, i, p))
  IN [k \in 1..Len(kept) |->
        IF Escaped(text, i, kept[k]) /\ text[kept[k]] = "n" THEN "\n" ELSE text[kept[k]]]

\* The string literal from i (past the opening quote) on.
ParseChars(text, i, acc) ==
  IF ClosingQuote(text, i) = 0 THEN ParseFail
  ELSE IF \E p \in i..(ClosingQuote(text, i) - 1) :
            \/ text[p] = "\n"
            \/ Escaped(text, i, p) /\ text[p] \notin {"\"", "\\", "n"}
       THEN ParseFail
  ELSE Parsed(TRUE, Str(acc \o Unescaped(text, i, ClosingQuote(text, i))),
              ClosingQuote(text, i) + 1)

RECURSIVE ParseValue(_, _)
RECURSIVE ParseElements(_, _, _)
RECURSIVE ParseMembers(_, _, _)
\* The elements of an array after its first, up to the closing bracket.
ParseElements(text, i, acc) ==
  LET j == SkipWs(text, i)
  IN IF j > Len(text) THEN ParseFail
     ELSE IF text[j] = "]" THEN Parsed(TRUE, Arr(acc), j + 1)
     ELSE IF text[j] # "," THEN ParseFail
     ELSE LET e == ParseValue(text, j + 1)
          IN IF e.ok THEN ParseElements(text, e.i, Append(acc, e.v)) ELSE ParseFail

\* One "key": value member at i, then the rest of the object.
ParseMembers(text, i, acc) ==
  LET j == SkipWs(text, i)
      k == IF j <= Len(text) /\ text[j] = "\"" THEN ParseChars(text, j + 1, <<>>)
           ELSE ParseFail
      c == IF k.ok THEN SkipWs(text, k.i) ELSE 0
      m == IF k.ok /\ c <= Len(text) /\ text[c] = ":" THEN ParseValue(text, c + 1)
           ELSE ParseFail
      d == IF m.ok THEN SkipWs(text, m.i) ELSE 0
      kvs == Append(SelectSeq(acc, LAMBDA kv : kv.s # k.v.s), JsVal("kv", 0, k.v.s, <<m.v>>))
  IN IF ~m.ok \/ d > Len(text) THEN ParseFail
     ELSE IF text[d] = "}" THEN Parsed(TRUE, Obj(kvs), d + 1)
     ELSE IF text[d] = "," THEN ParseMembers(text, d + 1, kvs)
     ELSE ParseFail

ParseValue(text, i) ==
  LET j == SkipWs(text, i)
  IN IF j > Len(text) THEN ParseFail
     ELSE CASE text[j] = "n" ->
                 (IF Spells(text, j, <<"n", "u", "l", "l">>)
                  THEN Parsed(TRUE, Null, j + 4) ELSE ParseFail)
            [] text[j] = "t" ->
                 (IF Spells(text, j, <<"t", "r", "u", "e">>)
                  THEN Parsed(TRUE, Bool(TRUE), j + 4) ELSE ParseFail)
            [] text[j] = "f" ->
                 (IF Spells(text, j, <<"f", "a", "l", "s", "e">>)
                  THEN Parsed(TRUE, Bool(FALSE), j + 5) ELSE ParseFail)
            [] IsDigit(text[j]) -> ParseDigits(text, j, 0)
            [] text[j] = "-" ->
                 (IF j + 1 <= Len(text) /\ IsDigit(text[j + 1])
                  THEN LET p == ParseDigits(text, j + 1, 0)
                       IN Parsed(TRUE, Num(-p.v.n), p.i)
                  ELSE ParseFail)
            [] text[j] = "\"" -> ParseChars(text, j + 1, <<>>)
            [] text[j] = "[" ->
                 (LET k == SkipWs(text, j + 1)
                  IN IF k <= Len(text) /\ text[k] = "]" THEN Parsed(TRUE, Arr(<<>>), k + 1)
                     ELSE LET e == ParseValue(text, k)
                          IN IF e.ok THEN ParseElements(text, e.i, <<e.v>>) ELSE ParseFail)
            [] text[j] = "{" ->
                 (LET k == SkipWs(text, j + 1)
                  IN IF k <= Len(text) /\ text[k] = "}" THEN Parsed(TRUE, Obj(<<>>), k + 1)
                     ELSE ParseMembers(text, k, <<>>))
            [] OTHER -> ParseFail

\* JSON.parse(text): ok is FALSE where it throws a SyntaxError (text that is
\* not a string is converted first, so undefined reads as "undefined").
JSONparse(text) ==
  LET str == ToStr(text)
      p == ParseValue(str, 1)
  IN IF p.ok /\ SkipWs(str, p.i) > Len(str) THEN p ELSE ParseFail

(***************************************************************************)
(* The tool registry: names, parameter schemas, parameter lists, texts.    *)
(***************************************************************************)
DEFAULT_RPC_URL == Str(<<"https://api-testnet.shardeum.org/">>)

\* The 17 tools, in the order registerTools registers them.
ToolNames ==
  << "eth_getBalance", "eth_blockNumber", "eth_getTransactionCount",
     "eth_getBlockTransactionCountByHash", "eth_getBlockTransactionCountByNumber",
     "eth_estimateGas", "eth_getBlockByHash", "eth_getBlockByNumber",
     "eth_getBlockReceipts", "eth_getTransactionByHash",
     "eth_getTransactionByBlockHashAndIndex",
     "eth_getTransactionByBlockNumberAndIndex", "eth_getTransactionReceipt",
     "eth_chainId", "shardeum_getNodeList", "shardeum_getNetworkAccount",
     "shardeum_getCycleInfo" >>

Tools == {ToolNames[i] : i \in 1..Len(ToolNames)}

\* The tools whose handler reads the result with parseInt(result, 16).
HexQuantityTools ==
  { "eth_getBalance", "eth_blockNumber", "eth_getTransactionCount",
    "eth_getBlockTransactionCountByHash", "eth_getBlockTransactionCountByNumber",
    "eth_estimateGas", "eth_chainId" }

\* The tools whose handler writes the result with JSON.stringify(result, null, 2).
StructuredTools == Tools \ HexQuantityTools

ArgNames ==
  { "address", "blockParameter", "blockHash", "blockNumber", "from", "to", "value",
    "data", "fullTransactions", "blockNumberOrHash", "txHash", "transactionIndex",
    "page", "limit", "cycleNumber" }

\* The digits of an address, {40}, and of a block or transaction hash, {64}.
AddressHexLen == 40

HashHexLen == 64

\* ^0x[a-fA-F0-9]{n}$
MatchesFixedHex(str, n) ==
  /\ Len(str) = n + 2
  /\ str[1] = "0"
  /\ str[2] = "x"
  /\ \A i \in 3..Len(str) : IsHexChar(str[i])


\* The address pattern without its end anchor: /^0x[a-fA-F0-9]{40}/.
MatchesAddressUnanchored(str) ==
  /\ Len(str) >= AddressHexLen + 2
  /\ str[1] = "0"
  /\ str[2] = "x"
  /\ \A i \in 3..(AddressHexLen + 2) : IsHexChar(str[i])

\* /^0x[a-fA-F0-9]{40}$/
MatchesAddress(str) == MatchesFixedHex(str, AddressHexLen)

\* /^0x[a-fA-F0-9]{64}$/
MatchesHash(str) == MatchesFixedHex(str, HashHexLen)

\* /^0x[a-fA-F0-9]+$/
MatchesQuantity(str) ==
  /\ Len(str) >= 3
  /\ str[1] = "0"
  /\ str[2] = "x"
  /\ \A i \in 3..Len(str) : IsHexChar(str[i])

Matches(pattern, str) ==
  CASE pattern = "address" -> MatchesAddress(str)
    [] pattern = "hash" -> MatchesHash(str)
    [] pattern = "quantity" -> MatchesQuantity(str)
    [] OTHER -> TRUE

\* One field of a schema: z.string() / z.number() / z.boolean(), its .regex(),
\* whether it is .optional(), and its .default() (undefined: none).
Field(name, type, pattern, optional, default) ==
  [name |-> name, type |-> type, pattern |-> pattern, optional |-> optional,
   default |-> default]

Schema(tool) ==
  CASE tool = "eth_getBalance" ->
         << Field("address", "str", "address", FALSE, Undefined),
            Field("blockParameter", "str", "none", TRUE, Str(<<"latest">>)) >>
    [] tool = "eth_getTransactionCount" ->
         << Field("address", "str", "address", FALSE, Undefined),
            Field("blockParameter", "str", "none", FALSE, Str(<<"latest">>)) >>
    [] tool = "eth_getBlockTransactionCountByHash" ->
         << Field("blockHash", "str", "hash", FALSE, Undefined) >>
    [] tool = "eth_getBlockTransactionCountByNumber" ->
         << Field("blockNumber", "str", "quantity", FALSE, Undefined) >>
    [] tool = "eth_estimateGas" ->
         << Field("from", "str", "address", TRUE, Undefined),
            Field("to", "str", "address", TRUE, Undefined),
            Field("value", "str", "none", TRUE, Undefined),
            Field("data", "str", "none", TRUE, Undefined) >>
    [] tool = "eth_getBlockByHash" ->
         << Field("blockHash", "str", "hash", FALSE, Undefined),
            Field("fullTransactions", "bool", "none", FALSE, Bool(FALSE)) >>
    [] tool = "eth_getBlockByNumber" ->
         << Field("blockNumber", "str", "quantity", FALSE, Undefined),
            Field("fullTransactions", "bool", "none", FALSE, Bool(FALSE)) >>
    [] tool = "eth_getBlockReceipts" ->
         << Field("blockNumberOrHash", "str", "none", FALSE, Undefined) >>
    [] tool = "eth_getTransactionByHash" ->
         << Field("txHash", "str", "hash", FALSE, Undefined) >>
    [] tool = "eth_getTransactionByBlockHashAndIndex" ->
         << Field("blockHash", "str", "hash", FALSE, Undefined),
            Field("transactionIndex", "str", "quantity", FALSE, Undefined) >>
    [] tool = "eth_getTransactionByBlockNumberAndIndex" ->
         << Field("blockNumber", "str", "quantity", FALSE, Undefined),
            Field("transactionIndex", "str", "quantity", FALSE, Undefined) >>
    [] tool = "eth_getTransactionReceipt" ->
         << Field("txHash", "str", "hash", FALSE, Undefined) >>
    [] tool = "shardeum_getNodeList" ->
         << Field("page", "num", "none", TRUE, Num(1)),
            Field("limit", "num", "none", TRUE, Num(100)) >>
    [] tool = "shardeum_getCycleInfo" ->
         << Field("cycleNumber", "num", "none", TRUE, Undefined) >>
    [] OTHER -> << >>

\* Whether the schema's field accepts the value given for it.
FieldAccepts(f, v) ==
  IF v.t = "undefined" THEN f.optional \/ f.default.t # "undefined"
  ELSE v.t = f.type /\ (v.t = "str" => Matches(f.pattern, v.s))


\* A schema that leaves a missing field missing.
FieldValueNoDefault(f, v) == v

\* The value the handler sees for the field: the default for a missing one.
FieldValue(f, v) == IF v.t = "undefined" THEN f.default ELSE v

\* Whether the arguments pass the tool's schema.
Validates(tool, raw) ==
  \A i \in 1..Len(Schema(tool)) : FieldAccepts(Schema(tool)[i], raw[Schema(tool)[i].name])

\* The handler's args: the schema's fields, defaults filled in, other keys
\* stripped.
ParsedArgs(tool, raw) ==
  [a \in ArgNames |->
     LET fs == {i \in 1..Len(Schema(tool)) : Schema(tool)[i].name = a}
     IN IF fs = {} THEN Undefined
        ELSE FieldValue(Schema(tool)[CHOOSE i \in fs : TRUE], raw[a])]

\* The properties `if (args.k) params.k = args.k` sets, in that order.
TruthyProps(args, keys) ==
  LET kvs == [i \in 1..Len(keys) |-> KV(keys[i], args[keys[i]])]
  IN SelectSeq(kvs, LAMBDA kv : Truthy(kv.xs[1]))

\* The method name the tool's handler passes to makeRpcCall.
RpcMethod(tool) ==
  CASE tool = "eth_getBalance" -> "eth_getBalance"
    [] tool = "eth_blockNumber" -> "eth_blockNumber"
    [] tool = "eth_getTransactionCount" -> "eth_getTransactionCount"
    [] tool = "eth_getBlockTransactionCountByHash" -> "eth_getBlockTransactionCountByHash"
    [] tool = "eth_getBlockTransactionCountByNumber" ->
         "eth_getBlockTransactionCountByNumber"
    [] tool = "eth_estimateGas" -> "eth_estimateGas"
    [] tool = "eth_getBlockByHash" -> "eth_getBlockByHash"
    [] tool = "eth_getBlockByNumber" -> "eth_getBlockByNumber"
    [] tool = "eth_getBlockReceipts" -> "eth_getBlockReceipts"
    [] tool = "eth_getTransactionByHash" -> "eth_getTransactionByHash"
    [] tool = "eth_getTransactionByBlockHashAndIndex" ->
         "eth_getTransactionByBlockHashAndIndex"
    [] tool = "eth_getTransactionByBlockNumberAndIndex" ->
         "eth_getTransactionByBlockNumberAndIndex"
    [] tool = "eth_getTransactionReceipt" -> "eth_getTransactionReceipt"
    [] tool = "eth_chainId" -> "eth_chainId"
    [] tool = "shardeum_getNodeList" -> "shardeum_getNodeList"
    [] tool = "shardeum_getNetworkAccount" -> "shardeum_getNetworkAccount"
    [] OTHER -> "shardeum_getCycleInfo"

\* A handler that passes the transaction index ahead of the block hash.
RpcParamsIndexFirst(tool, args) ==
  CASE tool \in {"eth_getBalance", "eth_getTransactionCount"} ->
         Arr(<<args["address"], args["blockParameter"]>>)
    [] tool = "eth_getBlockTransactionCountByHash" -> Arr(<<args["blockHash"]>>)
    [] tool = "eth_getBlockTransactionCountByNumber" -> Arr(<<args["blockNumber"]>>)
    [] tool = "eth_estimateGas" ->
         Arr(<<Obj(TruthyProps(args, <<"from", "to", "value", "data">>))>>)
    [] tool = "eth_getBlockByHash" ->
         Arr(<<args["blockHash"], args["fullTransactions"]>>)
    [] tool = "eth_getBlockByNumber" ->
         Arr(<<args["blockNumber"], args["fullTransactions"]>>)
    [] tool = "eth_getBlockReceipts" -> Arr(<<args["blockNumberOrHash"]>>)
    [] tool \in {"eth_getTransactionByHash", "eth_getTransactionReceipt"} ->
         Arr(<<args["txHash"]>>)
    [] tool = "eth_getTransactionByBlockHashAndIndex" ->
         Arr(<<args["transactionIndex"], args["blockHash"]>>)
    [] tool = "eth_getTransactionByBlockNumberAndIndex" ->
         Arr(<<args["blockNumber"], args["transactionIndex"]>>)
    [] tool = "shardeum_getNodeList" ->
         Arr(<<Obj(<<KV("page", args["page"]), KV("limit", args["limit"])>>)>>)
    [] tool = "shardeum_getCycleInfo" ->
         (IF args["cycleNumber"].t # "undefined" THEN Arr(<<args["cycleNumber"]>>)
          ELSE Arr(<<>>))
    [] OTHER -> Arr(<<>>)

\* A handler that tests the cycle number for truth, as the prompt does.
RpcParamsTruthyCycle(tool, args) ==
  CASE tool \in {"eth_getBalance", "eth_getTransactionCount"} ->
         Arr(<<args["address"], args["blockParameter"]>>)
    [] tool = "eth_getBlockTransactionCountByHash" -> Arr(<<args["blockHash"]>>)
    [] tool = "eth_getBlockTransactionCountByNumber" -> Arr(<<args["blockNumber"]>>)
    [] tool = "eth_estimateGas" ->
         Arr(<<Obj(TruthyProps(args, <<"from", "to", "value", "data">>))>>)
    [] tool = "eth_getBlockByHash" ->
         Arr(<<args["blockHash"], args["fullTransactions"]>>)
    [] tool = "eth_getBlockByNumber" ->
         Arr(<<args["blockNumber"], args["fullTransactions"]>>)
    [] tool = "eth_getBlockReceipts" -> Arr(<<args["blockNumberOrHash"]>>)
    [] tool \in {"eth_getTransactionByHash", "eth_getTransactionReceipt"} ->
         Arr(<<args["txHash"]>>)
    [] tool = "eth_getTransactionByBlockHashAndIndex" ->
         Arr(<<args["blockHash"], args["transactionIndex"]>>)
    [] tool = "eth_getTransactionByBlockNumberAndIndex" ->
         Arr(<<args["blockNumber"], args["transactionIndex"]>>)
    [] tool = "shardeum_getNodeList" ->
         Arr(<<Obj(<<KV("page", args["page"]), KV("limit", args["limit"])>>)>>)
    [] tool = "shardeum_getCycleInfo" ->
         (IF Truthy(args["cycleNumber"]) THEN Arr(<<args["cycleNumber"]>>)
          ELSE Arr(<<>>))
    [] OTHER -> Arr(<<>>)

\* The parameter list the tool's handler passes to makeRpcCall.
RpcParams(tool, args) ==
  CASE tool \in {"eth_getBalance", "eth_getTransactionCount"} ->
         Arr(<<args["address"], args["blockParameter"]>>)
    [] tool = "eth_getBlockTransactionCountByHash" -> Arr(<<args["blockHash"]>>)
    [] tool = "eth_getBlockTransactionCountByNumber" -> Arr(<<args["blockNumber"]>>)
    [] tool = "eth_estimateGas" ->
         Arr(<<Obj(TruthyProps(args, <<"from", "to", "value", "data">>))>>)
    [] tool = "eth_getBlockByHash" ->
         Arr(<<args["blockHash"], args["fullTransactions"]>>)
    [] tool = "eth_getBlockByNumber" ->
         Arr(<<args["blockNumber"], args["fullTransactions"]>>)
    [] tool = "eth_getBlockReceipts" -> Arr(<<args["blockNumberOrHash"]>>)
    [] tool \in {"eth_getTransactionByHash", "eth_getTransactionReceipt"} ->
         Arr(<<args["txHash"]>>)
    [] tool = "eth_getTransactionByBlockHashAndIndex" ->
         Arr(<<args["blockHash"], args["transactionIndex"]>>)
    [] tool = "eth_getTransactionByBlockNumberAndIndex" ->
         Arr(<<args["blockNumber"], args["transactionIndex"]>>)
    [] tool = "shardeum_getNodeList" ->
         Arr(<<Obj(<<KV("page", args["page"]), KV("limit", args["limit"])>>)>>)
    [] tool = "shardeum_getCycleInfo" ->
         (IF args["cycleNumber"].t # "undefined" THEN Arr(<<args["cycleNumber"]>>)
          ELSE Arr(<<>>))
    [] OTHER -> Arr(<<>>)

\* The fixed start of the text the tool's catch block returns.
FailurePrefix(tool) ==
  CASE tool = "eth_getBalance" -> "Error: Failed to get balance. "
    [] tool = "eth_blockNumber" -> "Error: Failed to get block number. "
    [] tool = "eth_getTransactionCount" -> "Error: Failed to get transaction count. "
    [] tool \in {"eth_getBlockTransactionCountByHash",
                 "eth_getBlockTransactionCountByNumber"} ->
         "Error: Failed to get block transaction count. "
    [] tool = "eth_estimateGas" -> "Error: Failed to estimate gas. "
    [] tool = "eth_getBlockByHash" -> "Error: Failed to get block by hash. "
    [] tool = "eth_getBlockByNumber" -> "Error: Failed to get block by number. "
    [] tool = "eth_getBlockReceipts" -> "Error: Failed to get block receipts. "
    [] tool = "eth_getTransactionByHash" -> "Error: Failed to get transaction by hash. "
    [] tool = "eth_getTransactionByBlockHashAndIndex" ->
         "Error: Failed to get transaction by block hash and index. "
    [] tool = "eth_getTransactionByBlockNumberAndIndex" ->
         "Error: Failed to get transaction by block number and index. "
    [] tool = "eth_getTransactionReceipt" -> "Error: Failed to get transaction receipt. "
    [] tool = "eth_chainId" -> "Error: Failed to get chain ID. "
    [] tool = "shardeum_getNodeList" -> "Error: Failed to get node list. "
    [] tool = "shardeum_getNetworkAccount" -> "Error: Failed to get network account. "
    [] OTHER -> "Error: Failed to get cycle information. "

\* The fixed words a hex-quantity text starts with, and the arguments in it.
QuantityLabel(tool, args) ==
  CASE tool = "eth_getBalance" ->
         <<"Balance for ">> \o ToStr(args["address"]) \o <<" at block ">>
         \o ToStr(args["blockParameter"]) \o <<":\n- Wei: ">>
    [] tool = "eth_blockNumber" -> <<"Current Block Number: ">>
    [] tool = "eth_getTransactionCount" ->
         <<"Transaction Count for ">> \o ToStr(args["address"]) \o <<" at ">>
         \o ToStr(args["blockParameter"]) \o <<" block: ">>
    [] tool = "eth_getBlockTransactionCountByHash" ->
         <<"Transaction Count for Block Hash ">> \o ToStr(args["blockHash"]) \o <<": ">>
    [] tool = "eth_getBlockTransactionCountByNumber" ->
         <<"Transaction Count for Block Number ">> \o ToStr(args["blockNumber"])
         \o <<": ">>
    [] tool = "eth_estimateGas" -> <<"Estimated Gas Required: ">>
    [] OTHER -> <<"Chain ID: ">>

\* What follows the label, for the number parseInt(result, 16) gave: the
\* balance's "<wei>\n- ETH: <eth>", any other's "<decimal> (<result>)".
QuantityText(tool, result, number) ==
  IF tool = "eth_getBalance"
  THEN NumberChars(number) \o <<"\n- ETH: ">> \o EthFixed4(number)
  ELSE NumberChars(number) \o <<" (">> \o ToStr(result) \o <<")">>


\* A handler that writes a structured result with a template literal.
SuccessTextInterpolated(tool, args, result) ==
  IF tool \in HexQuantityTools
  THEN Str(QuantityLabel(tool, args) \o QuantityText(tool, result, parseInt16(result)))
  ELSE Str(ToStr(result))

\* The text of the tool's success result: a string, or undefined where
\* JSON.stringify returns undefined.
SuccessText(tool, args, result) ==
  IF tool \in HexQuantityTools
  THEN Str(QuantityLabel(tool, args) \o QuantityText(tool, result, parseInt16(result)))
  ELSE JSONstringify(result)

(***************************************************************************)
(* makeRpcCall and the handlers' results.                                  *)
(***************************************************************************)
\* A thrown error: its constructor, its message and its code property.
Error(name, message, code) == [name |-> name, message |-> message, code |-> code]

NoError == Error("none", <<>>, Undefined)

\* What axios.post settles with: it rejects with an error, or resolves with a
\* response whose data is the parsed body.
Rejects(error) == [kind |-> "rejects", error |-> error, data |-> Undefined]

Resolves(data) == [kind |-> "resolves", error |-> NoError, data |-> data]

NoResponse == [kind |-> "none", error |-> NoError, data |-> Undefined]


\* A client that posts to the default endpoint whatever it was registered with.
MakeRpcRequestToDefault(method, params, rpcUrl) ==
  [verb |-> "POST", url |-> DEFAULT_RPC_URL,
   body |-> [jsonrpc |-> "2.0", id |-> 1, method |-> method, params |-> params]]

\* axios.post(rpcUrl, {jsonrpc: "2.0", id: 1, method, params})
MakeRpcRequest(method, params, rpcUrl) ==
  [verb |-> "POST", url |-> rpcUrl,
   body |-> [jsonrpc |-> "2.0", id |-> 1, method |-> method, params |-> params]]

\* How a call of makeRpcCall ends.
Throws(error) == [threw |-> TRUE, error |-> error, value |-> Undefined]

Returns(value) == [threw |-> FALSE, error |-> NoError, value |-> value]

NoOutcome == [threw |-> FALSE, error |-> NoError, value |-> Undefined]


\* An RPC error thrown without the remote message.
RpcErrorBare(error) == [name |-> "Error", message |-> <<"RPC Error">>, code |-> Undefined]

\* new Error(`RPC Error: ${response.data.error.message}`)
RpcError(error) ==
  Error("Error", <<"RPC Error: ">> \o ToStr(GetField(error, "message")), Undefined)

\* Reading .error of a body that is null or undefined.
NoDataError(data) ==
  Error("TypeError",
        <<"Cannot read properties of ">> \o ToStr(data) \o <<" (reading 'error')">>,
        Undefined)


\* A catch block that throws a new error in place of the one it caught.
MakeRpcOutcomeWrapped(resp) ==
  IF resp.kind = "rejects"
  THEN [threw |-> TRUE, error |-> [name |-> "Error", message |-> <<"RPC call failed">>,
                                   code |-> Undefined], value |-> Undefined]
  ELSE IF resp.data.t \in {"null", "undefined"} THEN Throws(NoDataError(resp.data))
  ELSE IF Truthy(GetField(resp.data, "error"))
       THEN Throws(RpcError(GetField(resp.data, "error")))
  ELSE Returns(GetField(resp.data, "result"))

\* A client that returns the response body in place of its result member.
MakeRpcOutcomeWholeBody(resp) ==
  IF resp.kind = "rejects" THEN Throws(resp.error)
  ELSE IF resp.data.t \in {"null", "undefined"} THEN Throws(NoDataError(resp.data))
  ELSE IF Truthy(GetField(resp.data, "error"))
       THEN Throws(RpcError(GetField(resp.data, "error")))
  ELSE Returns(resp.data)

\* A client that returns the result whenever the body has one, error or not.
MakeRpcOutcomeResultFirst(resp) ==
  IF resp.kind = "rejects" THEN Throws(resp.error)
  ELSE IF resp.data.t \in {"null", "undefined"} THEN Throws(NoDataError(resp.data))
  ELSE IF GetField(resp.data, "result") # Undefined
       THEN Returns(GetField(resp.data, "result"))
  ELSE IF Truthy(GetField(resp.data, "error"))
       THEN Throws(RpcError(GetField(resp.data, "error")))
  ELSE Returns(GetField(resp.data, "result"))

\* makeRpcCall once axios.post has settled: a rejection is caught, logged and
\* thrown again as it is; a response with a truthy error throws; any other
\* returns response.data.result.
MakeRpcOutcome(resp) ==
  IF resp.kind = "rejects" THEN Throws(resp.error)
  ELSE IF resp.data.t \in {"null", "undefined"} THEN Throws(NoDataError(resp.data))
  ELSE IF Truthy(GetField(resp.data, "error"))
       THEN Throws(RpcError(GetField(resp.data, "error")))
  ELSE Returns(GetField(resp.data, "result"))


\* A catch block that posts the request once more before it gives up.
ShouldRetryOnce(outcome, attempts) == attempts < 2

\* Whether makeRpcCall posts the request again after it has failed `attempts`
\* times: its catch block only logs and rethrows.
ShouldRetry(outcome, attempts) == FALSE

\* What a handler returns: {content: [{type: "text", text}], isError}.
Payload(text, isError) ==
  [content |-> <<[type |-> "text", text |-> text]>>, isError |-> isError]

NoPayload == [content |-> <<>>, isError |-> Undefined]


\* A catch block that returns the text without the isError flag.
FailureResultUnflagged(tool, error) ==
  [content |-> <<[type |-> "text", text |-> Str(<<FailurePrefix(tool)>> \o error.message)]>>,
   isError |-> Undefined]

\* The handler's catch block.
FailureResult(tool, error) ==
  Payload(Str(<<FailurePrefix(tool)>> \o error.message), Bool(TRUE))

\* The handler's return after makeRpcCall returned: no isError property.
SuccessResult(tool, args, result) == Payload(SuccessText(tool, args, result), Undefined)

HandlerResult(tool, args, outcome) ==
  IF outcome.threw THEN FailureResult(tool, outcome.error)
  ELSE SuccessResult(tool, args, outcome.value)

\* A registerTools that ignores the rpcUrl it is given.
RegisteredUrlFixed(given) == DEFAULT_RPC_URL

\* registerTools(server, rpcUrl = DEFAULT_RPC_URL)
RegisteredUrl(given) == IF given.t = "undefined" THEN DEFAULT_RPC_URL ELSE given

(***************************************************************************)
(* The callers' arguments and the endpoint's answers the model draws from. *)
(***************************************************************************)
NoArgs == [a \in ArgNames |-> Undefined]

With(args, name, v) == [args EXCEPT ![name] = v]

Hex(digits) == Str(<<"0", "x">> \o digits)

GoodAddress == Hex(Rep("a", 19) \o <<"9">> \o Rep("F", 20))

\* Wrong length (one digit short, one digit long).
ShortAddress == Hex(Rep("a", 39))

LongAddress == Hex(Rep("a", 41))

\* Missing 0x prefix: 40 digits alone, 42 digits alone, and a 0X prefix.
BareAddress == Str(Rep("a", 40))

BareAddress42 == Str(Rep("a", 42))

UpperPrefixAddress == Str(<<"0", "X">> \o Rep("a", 40))

\* A character that is no hex digit, at the end and at the start of the digits.
NonHexAddress == Hex(Rep("a", 39) \o <<"g">>)

NonHexAddress2 == Hex(<<"z">> \o Rep("a", 39))

MalformedAddresses ==
  { ShortAddress, LongAddress, BareAddress, BareAddress42, UpperPrefixAddress,
    NonHexAddress, NonHexAddress2, Str(<<>>) }

GoodHash == Hex(Rep("b", 63) \o <<"0">>)

ShortHash == Hex(Rep("b", 63))

GoodQuantity == Hex(<<"1", "b", "4">>)

\* The arguments callers give each tool: accepted ones and rejected ones.
RawArgs(tool) ==
  CASE tool = "eth_getBalance" ->
         { With(With(NoArgs, "address", a), "blockParameter", b) :
             a \in {GoodAddress} \cup MalformedAddresses,
             b \in {Undefined, Hex(<<"1", "0">>)} }
         \cup { With(NoArgs, "blockParameter", Str(<<"latest">>)),
                With(With(NoArgs, "address", GoodAddress), "blockParameter", Num(5)) }
    [] tool = "eth_getTransactionCount" ->
         { With(With(NoArgs, "address", a), "blockParameter", b) :
             a \in {GoodAddress} \cup MalformedAddresses,
             b \in {Undefined, Str(<<"pending">>)} }
    [] tool = "eth_estimateGas" ->
         { NoArgs,
           With(NoArgs, "from", GoodAddress),
           With(With(With(With(NoArgs, "from", GoodAddress), "to", GoodAddress),
                     "value", Hex(<<"1">>)), "data", Hex(<<"a", "b">>)),
           With(With(NoArgs, "to", GoodAddress), "value", Str(<<>>)) }
         \cup { With(NoArgs, "from", a) : a \in MalformedAddresses }
         \cup { With(With(NoArgs, "from", GoodAddress), "to", a) :
                  a \in MalformedAddresses }
    [] tool \in {"eth_getBlockTransactionCountByHash", "eth_getTransactionByHash",
                 "eth_getTransactionReceipt"} ->
         { With(NoArgs, Schema(tool)[1].name, h) : h \in {GoodHash, ShortHash, Undefined} }
    [] tool = "eth_getBlockTransactionCountByNumber" ->
         { With(NoArgs, "blockNumber", q) : q \in {GoodQuantity, Hex(<<>>), Num(436)} }
    [] tool = "eth_getBlockByHash" ->
         { With(With(NoArgs, "blockHash", h), "fullTransactions", f) :
             h \in {GoodHash, ShortHash}, f \in {Undefined, Bool(TRUE)} }
    [] tool = "eth_getBlockByNumber" ->
         { With(With(NoArgs, "blockNumber", q), "fullTransactions", f) :
             q \in {GoodQuantity, Str(<<"latest">>)}, f \in {Undefined, Bool(TRUE)} }
    [] tool = "eth_getBlockReceipts" ->
         { With(NoArgs, "blockNumberOrHash", q) : q \in {GoodQuantity, Undefined} }
    [] tool = "eth_getTransactionByBlockHashAndIndex" ->
         { With(With(NoArgs, "blockHash", GoodHash), "transactionIndex", q) :
             q \in {Hex(<<"0">>), Str(<<"1">>)} }
    [] tool = "eth_getTransactionByBlockNumberAndIndex" ->
         { With(With(NoArgs, "blockNumber", GoodQuantity), "transactionIndex", q) :
             q \in {Hex(<<"0">>), Undefined} }
    [] tool = "shardeum_getNodeList" ->
         { NoArgs,
           With(With(NoArgs, "page", Num(2)), "limit", Num(10)),
           With(NoArgs, "page", Str(<<"2">>)) }
    [] tool = "shardeum_getCycleInfo" ->
         { With(NoArgs, "cycleNumber", c) : c \in {Undefined, Num(0), Num(7), Str(<<"7">>)} }
    [] OTHER -> { NoArgs }

\* Transport failures: a refused connection, a timeout, a status outside 2xx.
TransportFailures ==
  { Rejects(Error("AxiosError", <<"connect ECONNREFUSED">>, Str(<<"ECONNREFUSED">>))),
    Rejects(Error("AxiosError", <<"timeout of 1000ms exceeded">>, Str(<<"ECONNABORTED">>))),
    Rejects(Error("AxiosError", <<"Request failed with status code 500">>,
                  Str(<<"ERR_BAD_RESPONSE">>))) }

\* A JSON-RPC error object {code, message}.
ErrorObject(code, message) == Obj(<<KV("code", Num(code)), KV("message", Str(message))>>)

ErrorObjects ==
  { ErrorObject(-32000, <<"execution reverted">>),
    ErrorObject(-32601, <<"Method not found">>) }

\* A body carrying an error object and no result.
ErrorResponses == { Resolves(Obj(<<KV("error", e)>>)) : e \in ErrorObjects }

ResultResponse(result) == Resolves(Obj(<<KV("result", result)>>))

SampleBlock ==
  Obj(<< KV("number", Hex(<<"1", "0">>)),
         KV("transactions", Arr(<<GoodHash>>)) >>)

\* The answers every behaviour draws from: each failure, each error object
\* and one well-formed result.
Responses(tool) ==
  TransportFailures \cup ErrorResponses
  \cup { ResultResponse(IF tool \in HexQuantityTools THEN Hex(<<"1", "0">>)
                        ELSE SampleBlock) }

\* Hex quantities up to 2^54 (see NumberChars).
HexResults ==
  { Hex(<<"0">>), Hex(<<"F", "f">>), Hex(<<"0", "0", "1", "0">>),
    Hex(<<"2", "3", "8", "6", "f", "2", "6", "f", "c", "1">> \o Rep("0", 4)),
    Hex(<<"3", "8", "d", "7", "e", "a", "4", "c", "6", "7", "f", "f", "f">>),
    Hex(<<"1">> \o Rep("f", 13)),
    Hex(<<"2">> \o Rep("0", 12) \o <<"1">>),
    Hex(<<"2">> \o Rep("0", 12) \o <<"3">>),
    Hex(<<"4">> \o Rep("0", 13)) }

JsonResults ==
  { Null, Bool(FALSE), Num(0), Num(-12), Str(<<>>), Str(<<"a", "\"", "\\", "\n", "}">>),
    Arr(<<>>), Obj(<<>>),
    Arr(<<SampleBlock, Null, Arr(<<Num(7), Str(<<"[">>)>>)>>),
    Obj(<< KV("nodes", Arr(<<Obj(<<KV("id", Str(<<"n", "1">>)), KV("port", Num(9001))>>)>>)),
           KV("total", Num(1)), KV("next", Null) >>) }

\* Well-formed results of every shape, for the tools that format them.
\* Results a hex-quantity handler reads with parseInt though they are no hex
\* quantity.
NonQuantityResults == { Null, Bool(FALSE), Str(<<"pending">>), Str(<<>>), Obj(<<>>) }

\* A body with neither a result nor an error.
BareResponse == Resolves(Obj(<< KV("jsonrpc", Str(<<"2.0">>)), KV("id", Num(1)) >>))

\* Bodies with both a result and an error member, the error truthy or falsy.
MixedResponses ==
  { Resolves(Obj(<< KV("jsonrpc", Str(<<"2.0">>)), KV("id", Num(1)),
                    KV("result", r), KV("error", e) >>)) :
      r \in {Null, Hex(<<"1", "0">>)},
      e \in {ErrorObject(3, <<"reverted">>), Str(<<"boom">>), Null, Num(0)} }

\* Well-formed results of every shape, for the tools that format them, and
\* the bodies an endpoint that strays from JSON-RPC answers with.
MoreResponses(tool) ==
  { ResultResponse(r) : r \in IF tool \in HexQuantityTools
                              THEN HexResults \cup NonQuantityResults ELSE JsonResults }
  \cup MixedResponses \cup {BareResponse}

(***************************************************************************)
(* The prompt registry: names, schemas and the message each prompt returns. *)
(***************************************************************************)
\* The 17 prompts, in the order registerPrompts registers them.
PromptNames ==
  << "address_balance",
     "block_number",
     "transaction_count",
     "block_transactions_by_hash",
     "block_transactions_by_number",
     "estimate_gas",
     "block_by_hash",
     "block_by_number",
     "block_receipts",
     "transaction_by_hash",
     "transaction_by_block_hash_index",
     "transaction_by_block_number_index",
     "transaction_receipt",
     "chain_id",
     "shardeum_node_list",
     "shardeum_network_account",
     "shardeum_cycle_info" >>

Prompts == {PromptNames[i] : i \in 1..Len(PromptNames)}

\* The tool a prompt was written for: the k-th prompt goes with the k-th tool.
PromptTool(name) == ToolNames[CHOOSE k \in 1..Len(PromptNames) : PromptNames[k] = name]

PromptSchema(name) ==
  CASE name \in {"address_balance", "transaction_count"} ->
         << Field("address", "str", "address", FALSE, Undefined),
            Field("blockParameter", "str", "none", TRUE, Str(<<"latest">>)) >>
    [] name = "block_transactions_by_hash" ->
         << Field("blockHash", "str", "hash", FALSE, Undefined) >>
    [] name = "block_transactions_by_number" ->
         << Field("blockNumber", "str", "quantity", FALSE, Undefined) >>
    [] name = "estimate_gas" ->
         << Field("from", "str", "address", TRUE, Undefined),
            Field("to", "str", "address", TRUE, Undefined),
            Field("value", "str", "none", TRUE, Undefined),
            Field("data", "str", "none", TRUE, Undefined) >>
    [] name = "block_by_hash" ->
         << Field("blockHash", "str", "hash", FALSE, Undefined),
            Field("fullTransactions", "bool", "none", TRUE, Bool(FALSE)) >>
    [] name = "block_by_number" ->
         << Field("blockNumber", "str", "quantity", FALSE, Undefined),
            Field("fullTransactions", "bool", "none", TRUE, Bool(FALSE)) >>
    [] name = "block_receipts" ->
         << Field("blockNumberOrHash", "str", "none", FALSE, Undefined) >>
    [] name \in {"transaction_by_hash", "transaction_receipt"} ->
         << Field("txHash", "str", "hash", FALSE, Undefined) >>
    [] name = "transaction_by_block_hash_index" ->
         << Field("blockHash", "str", "hash", FALSE, Undefined),
            Field("transactionIndex", "str", "quantity", FALSE, Undefined) >>
    [] name = "transaction_by_block_number_index" ->
         << Field("blockNumber", "str", "quantity", FALSE, Undefined),
            Field("transactionIndex", "str", "quantity", FALSE, Undefined) >>
    [] name = "shardeum_node_list" ->
         << Field("page", "num", "none", TRUE, Num(1)),
            Field("limit", "num", "none", TRUE, Num(100)) >>
    [] name = "shardeum_cycle_info" ->
         << Field("cycleNumber", "num", "none", TRUE, Undefined) >>
    [] OTHER -> << >>

\* Whether the arguments pass the prompt's schema.
PromptValidates(name, raw) ==
  \A i \in 1..Len(PromptSchema(name)) :
    FieldAccepts(PromptSchema(name)[i], raw[PromptSchema(name)[i].name])

\* The prompt callback's arguments: the schema's fields, defaults filled in.
PromptArgs(name, raw) ==
  [a \in ArgNames |->
     LET fs == {i \in 1..Len(PromptSchema(name)) : PromptSchema(name)[i].name = a}
     IN IF fs = {} THEN Undefined
        ELSE FieldValue(PromptSchema(name)[CHOOSE i \in fs : TRUE], raw[a])]

\* The template literal of the prompt's message; a method name in it is a
\* symbol of its own.
PromptText(name, args) ==
  CASE name = "address_balance" ->
         <<"Use ", "eth_getBalance", " to conduct a comprehensive financial analysis for address ">> 
         \o ToStr(args["address"]) 
         \o <<" at block ">> 
         \o ToStr(args["blockParameter"]) 
         \o <<":\n\n1. Retrieve native token balance\n2. Perform in-depth financial investigation:\n   - Current balance in native tokens\n   - Historical balance trends\n   - Wallet activity indicators\n   - Potential account type classification\n\nProvide contextual insights into the account's financial status and blockchain interaction patterns.">>
    [] name = "block_number" ->
         <<"Use ", "eth_blockNumber", " to analyze the current state of the Shardeum blockchain:\n\n1. Retrieve the latest block number\n2. Provide context about:\n   - Network progression\n   - Recent blockchain activity\n   - Synchronization status\n\nHighlight the significance of the current block number in the network's timeline.">>
    [] name = "transaction_count" ->
         <<"Use ", "eth_getTransactionCount", " to perform a comprehensive analysis of transaction history for address ">> 
         \o ToStr(args["address"]) 
         \o <<" at block ">> 
         \o ToStr(args["blockParameter"]) 
         \o <<":\n\n1. Retrieve total number of transactions sent\n2. Analyze account activity:\n   - Transaction frequency\n   - Account age and maturity\n   - Potential account type (user, contract, exchange)\n   - Historical transaction patterns\n\nProvide insights into the account's blockchain interaction and significance.">>
    [] name = "block_transactions_by_hash" ->
         <<"Use ", "eth_getBlockTransactionCountByHash", " to conduct a detailed analysis of block transactions for hash ">> 
         \o ToStr(args["blockHash"]) 
         \o <<":\n\n1. Retrieve total number of transactions in the block\n2. Investigate block characteristics:\n   - Transaction density\n   - Block utilization\n   - Potential network activity indicators\n   - Comparison with recent blocks\n\nProvide context about the block's significance and network performance.">>
    [] name = "block_transactions_by_number" ->
         <<"Use ", "eth_getBlockTransactionCountByNumber", " to perform an in-depth analysis of block ">> 
         \o ToStr(args["blockNumber"]) 
         \o <<":\n\n1. Retrieve the number of transactions in the block\n2. Analyze block characteristics:\n   - Transaction volume\n   - Network activity levels\n   - Potential network events or congestion\n   - Comparative analysis with network averages\n\nProvide insights into the block's role in the blockchain ecosystem.">>
    [] name = "estimate_gas" ->
         <<"Use ", "eth_estimateGas", " to conduct a comprehensive gas cost analysis for a transaction:\n\n1. Estimate gas requirements\n2. Analyze transaction cost factors:\n   - Computational complexity\n   - Network congestion impact\n   - Gas price estimation\n   - Potential optimization strategies\n\nProvide detailed insights into transaction economics and efficiency.\n\nTransaction Details:\n">> 
         \o (IF Truthy(args["from"]) THEN (<<"- From: ">> \o ToStr(args["from"])) ELSE <<"No sender specified">>) 
         \o <<"\n">> 
         \o (IF Truthy(args["to"]) THEN (<<"- To: ">> \o ToStr(args["to"])) ELSE <<"No recipient specified">>) 
         \o <<"\n">> 
         \o (IF Truthy(args["value"]) THEN (<<"- Value: ">> \o ToStr(args["value"])) ELSE <<"No value specified">>) 
         \o <<"\n">> 
         \o (IF Truthy(args["data"]) THEN <<"- Custom data present">> ELSE <<"No custom data">>)
    [] name = "block_by_hash" ->
         <<"Use ", "eth_getBlockByHash", " to perform a comprehensive analysis of block with hash ">> 
         \o ToStr(args["blockHash"]) 
         \o <<":\n\n1. Retrieve block details ">> 
         \o (IF Truthy(args["fullTransactions"]) THEN <<"with full transaction information">> ELSE <<"with transaction summaries">>) 
         \o <<"\n2. Analyze block characteristics:\n   - Block structure and metadata\n   - Validator/Miner information\n   - Transaction composition\n   - Network performance indicators\n\nProvide deep insights into the block's role in the blockchain ecosystem.">>
    [] name = "block_by_number" ->
         <<"Use ", "eth_getBlockByNumber", " to conduct an in-depth analysis of block number ">> 
         \o ToStr(args["blockNumber"]) 
         \o <<":\n\n1. Retrieve block details ">> 
         \o (IF Truthy(args["fullTransactions"]) THEN <<"with full transaction information">> ELSE <<"with transaction summaries">>) 
         \o <<"\n2. Investigate block characteristics:\n   - Detailed block metadata\n   - Transaction composition\n   - Network state at block generation\n   - Performance and security indicators\n\nProvide comprehensive insights into the block's significance.">>
    [] name = "block_receipts" ->
         <<"Use ", "eth_getBlockReceipts", " to analyze the transaction outcomes for block ">> 
         \o ToStr(args["blockNumberOrHash"]) 
         \o <<":\n\n1. Retrieve transaction receipts\n2. Perform comprehensive receipt analysis:\n   - Transaction success rates\n   - Gas consumption details\n   - Logs and event information\n   - Blockchain state changes\n\nProvide forensic insights into the block's transaction execution.">>
    [] name = "transaction_by_hash" ->
         <<"Use ", "eth_getTransactionByHash", " to perform a comprehensive forensic analysis of transaction ">> 
         \o ToStr(args["txHash"]) 
         \o <<":\n\n1. Retrieve complete transaction details\n2. Conduct in-depth transaction investigation:\n   - Sender and recipient information\n   - Transaction value and type\n   - Gas price and consumption\n   - Potential smart contract interactions\n   - Blockchain context\n\nProvide detailed insights into the transaction's significance and characteristics.">>
    [] name = "transaction_by_block_hash_index" ->
         <<"Use ", "eth_getTransactionByBlockHashAndIndex", " to analyze the specific transaction at index ">> 
         \o ToStr(args["transactionIndex"]) 
         \o <<" in block with hash ">> 
         \o ToStr(args["blockHash"]) 
         \o <<":\n\n1. Retrieve transaction details\n2. Investigate transaction context:\n   - Position within block\n   - Relationship to other transactions\n   - Detailed transaction characteristics\n   - Block-level insights\n\nProvide comprehensive analysis of the transaction's role and significance.">>
    [] name = "transaction_by_block_number_index" ->
         <<"Use ", "eth_getTransactionByBlockNumberAndIndex", " to perform a detailed analysis of the transaction at index ">> 
         \o ToStr(args["transactionIndex"]) 
         \o <<" in block number ">> 
         \o ToStr(args["blockNumber"]) 
         \o <<":\n\n1. Retrieve transaction details\n2. Conduct comprehensive investigation:\n   - Transaction positioning\n   - Block-level context\n   - Detailed transaction characteristics\n   - Network state analysis\n\nProvide insights into the transaction's significance within its block.">>
    [] name = "transaction_receipt" ->
         <<"Use ", "eth_getTransactionReceipt", " to perform a forensic analysis of the transaction receipt for ">> 
         \o ToStr(args["txHash"]) 
         \o <<":\n\n1. Retrieve complete transaction receipt\n2. Conduct in-depth receipt investigation:\n   - Transaction execution status\n   - Gas used and actual cost\n   - Logs and event details\n   - State changes and contract interactions\n   - Success or failure indicators\n\nProvide comprehensive insights into the transaction's final outcome.">>
    [] name = "chain_id" ->
         <<"Use ", "eth_chainId", " to analyze the network identification and characteristics:\n\n1. Retrieve the chain ID\n2. Investigate network details:\n   - Unique network identifier\n   - Network type (mainnet/testnet)\n   - Ecosystem compatibility\n   - Potential cross-chain implications\n\nProvide comprehensive insights into the network's identification and context.">>
    [] name = "shardeum_node_list" ->
         <<"Use ", "shardeum_getNodeList", " to perform a comprehensive analysis of Shardeum network nodes:\n\n1. Retrieve node list for page ">> 
         \o ToStr(args["page"]) 
         \o <<" with ">> 
         \o ToStr(args["limit"]) 
         \o <<" nodes per page\n2. Investigate network node composition:\n   - Node distribution\n   - Network health indicators\n   - Staking and validator information\n   - Network decentralization metrics\n\nProvide detailed insights into the Shardeum network's node ecosystem.">>
    [] name = "shardeum_network_account" ->
         <<"Use ", "shardeum_getNetworkAccount", " to conduct a comprehensive analysis of the Shardeum network account:\n\n1. Retrieve network account details\n2. Investigate network parameters:\n   - Network governance information\n   - Staking and reward mechanisms\n   - Network economic model\n   - Cycle and maintenance details\n\nProvide deep insights into the Shardeum network's economic and operational structure.">>
    [] OTHER ->
         <<"Use ", "shardeum_getCycleInfo", " to analyze ">> 
         \o (IF Truthy(args["cycleNumber"]) THEN (<<"cycle number ">> \o ToStr(args["cycleNumber"])) ELSE <<"the current network cycle">>) 
         \o <<":\n\n1. Retrieve detailed cycle information\n2. Investigate cycle characteristics:\n   - Node activity and composition\n   - Network synchronization state\n   - Performance metrics\n   - Validator and staking dynamics\n\nProvide comprehensive insights into the Shardeum network's current operational cycle.">>

\* A prompt callback that fetches what its text talks about.
PromptRequestsFetching(name, args, url) ==
  <<[verb |-> "POST", url |-> url,
     body |-> [jsonrpc |-> "2.0", id |-> 1, method |-> PromptTool(name),
               params |-> Arr(<<>>)]]>>

\* The requests a prompt's callback posts: it calls neither makeRpcCall nor
\* axios.
PromptRequests(name, args, url) == <<>>

\* What the prompt's callback returns.
PromptResult(name, args) ==
  [messages |->
     <<[role |-> "user",
        content |-> [type |-> "text", text |-> Str(PromptText(name, args))]]>>]

(***************************************************************************)
(* The state machine.  Each invocation of a tool runs in a slot: the       *)
(* schema check and, when it passes, the handler up to its await of        *)
(* axios.post are one step; the settling of the request and the rest of    *)
(* the handler are another.  Invocations in different slots interleave at  *)
(* the await.                                                              *)
(***************************************************************************)
\* How many invocations may be in progress at once.
NumInv == 1

VARIABLES
  rpcUrl,   \* the endpoint registerTools closed over
  inv,      \* inv[i]: the invocation in slot i
  server    \* startServer's progress and what it has registered and logged

vars == <<rpcUrl, inv, server>>

\* The rpcUrl start-up passes to registerTools: none, or config.rpcUrl.
StartUrls == { Undefined, Str(<<"https://<add-network-name>.shardeum.org/">>) }

\* pc: idle, rejected (the schema refused the arguments; the handler never ran),
\* awaiting (the handler awaits axios.post) or returned (the handler returned
\* out).  sent: the requests posted so far.  resp: what the last one settled
\* with.  outcome: how makeRpcCall ended.
Slot(pc, tool, raw, args, sent, resp, outcome, out) ==
  [pc |-> pc, tool |-> tool, raw |-> raw, args |-> args, sent |-> sent, resp |-> resp,
   outcome |-> outcome, out |-> out]

Idle == Slot("idle", "none", NoArgs, NoArgs, <<>>, NoResponse, NoOutcome, NoPayload)

\* A startServer that connects the transport before it registers anything.
StartOrderConnectFirst == <<"connect", "registerPrompts", "registerTools">>

\* The statements of startServer's try block, in order; the two log lines
\* follow the await of server.connect without a yield and belong to it.
StartOrder == <<"registerPrompts", "registerTools", "connect">>

\* The lines startServer writes once connected.
RunningLog(given) ==
  << <<"shm-mcp", " MCP Server (v", "1.0.0", ") is running...">>,
     <<"Connected to RPC: ">> \o ToStr(given) >>

\* given: the rpcUrl startServer passes to registerTools.  step: the next
\* statement of StartOrder.  prompts, tools: what is registered.  log: what
\* startServer wrote to stderr.  exited, status: process.exit.
Server(given, step, prompts, tools, connected, log, exited, status) ==
  [given |-> given, step |-> step, prompts |-> prompts, tools |-> tools,
   connected |-> connected, log |-> log, exited |-> exited, status |-> status]

Starting(given) == Server(given, 1, {}, {}, FALSE, <<>>, FALSE, 0)

\* The server once startServer has run through.
Started(given) ==
  Server(given, Len(StartOrder) + 1, Prompts, Tools, TRUE, RunningLog(given), FALSE, 0)

\* The server after the statement op of startServer's try block.
AfterStatement(srv, op) ==
  CASE op = "registerPrompts" -> [srv EXCEPT !.step = @ + 1, !.prompts = Prompts]
    [] op = "registerTools" -> [srv EXCEPT !.step = @ + 1, !.tools = Tools]
    [] OTHER -> [srv EXCEPT !.step = @ + 1, !.connected = TRUE,
                            !.log = @ \o RunningLog(srv.given)]

\* The server after startServer's catch block.
AfterCatch(srv) ==
  [srv EXCEPT !.log = Append(@, <<"Failed to start MCP server:">>),
              !.exited = TRUE, !.status = 1]

\* Requests reach the server once the transport is connected, while the
\* process lives.
Serving == server.connected /\ ~server.exited

Init ==
  /\ \E given \in StartUrls : rpcUrl = RegisteredUrl(given) /\ server = Started(given)
  /\ inv = [i \in 1..NumInv |-> Idle]

\* Handlers that keep their locals in one place shared by all invocations:
\* a continuation finds the locals of the oldest invocation in flight.
SharedFrame(slots, i) ==
  slots[CHOOSE j \in DOMAIN slots :
          /\ slots[j].pc = "awaiting"
          /\ \A k \in DOMAIN slots : slots[k].pc = "awaiting" => j <= k]

\* The frame a continuation runs in: the locals of its own invocation.
OwnFrame(slots, i) == slots[i]

\* A caller invokes the tool with arguments its schema refuses.
Reject(i, tool, raw) ==
  /\ Serving
  /\ tool \in server.tools
  /\ inv[i].pc = "idle"
  /\ ~Validates(tool, raw)
  /\ inv' = [inv EXCEPT ![i] =
       Slot("rejected", tool, raw, NoArgs, <<>>, NoResponse, NoOutcome, NoPayload)]
  /\ UNCHANGED <<rpcUrl, server>>

\* A caller invokes the tool with arguments its schema accepts: the handler
\* runs up to makeRpcCall's await of axios.post.
Call(i, tool, raw) ==
  /\ Serving
  /\ tool \in server.tools
  /\ inv[i].pc = "idle"
  /\ Validates(tool, raw)
  /\ LET args == ParsedArgs(tool, raw)
         req == MakeRpcRequest(RpcMethod(tool), RpcParams(tool, args), rpcUrl)
     IN inv' = [inv EXCEPT ![i] =
          Slot("awaiting", tool, raw, args, <<req>>, NoResponse, NoOutcome, NoPayload)]
  /\ UNCHANGED <<rpcUrl, server>>

\* The request of slot i settles with resp: makeRpcCall ends and the handler
\* returns its result.
Settle(i, resp) ==
  /\ inv[i].pc = "awaiting"
  /\ LET cur == OwnFrame(inv, i)
         outcome == MakeRpcOutcome(resp)
     IN inv' = [inv EXCEPT ![i] =
          IF outcome.threw /\ ShouldRetry(outcome, Len(cur.sent))
          THEN [cur EXCEPT !.sent = Append(cur.sent, cur.sent[1]), !.resp = resp]
          ELSE [cur EXCEPT !.pc = "returned", !.resp = resp, !.outcome = outcome,
                           !.out = HandlerResult(cur.tool, cur.args, outcome)]]
  /\ UNCHANGED <<rpcUrl, server>>

\* The caller has its answer; the slot is free for the next invocation.
Deliver(i) ==
  /\ inv[i].pc \in {"rejected", "returned", "prompted"}
  /\ inv' = [inv EXCEPT ![i] = Idle]
  /\ UNCHANGED <<rpcUrl, server>>

\* A caller asks for the prompt with arguments its schema refuses.
PromptReject(i, name, raw) ==
  /\ Serving
  /\ name \in server.prompts
  /\ inv[i].pc = "idle"
  /\ ~PromptValidates(name, raw)
  /\ inv' = [inv EXCEPT ![i] =
       Slot("rejected", name, raw, NoArgs, <<>>, NoResponse, NoOutcome, NoPayload)]
  /\ UNCHANGED <<rpcUrl, server>>

\* A caller asks for the prompt: its callback runs through and returns.
Prompt(i, name, raw) ==
  /\ Serving
  /\ name \in server.prompts
  /\ inv[i].pc = "idle"
  /\ PromptValidates(name, raw)
  /\ inv' = [inv EXCEPT ![i] =
       Slot("prompted", name, raw, PromptArgs(name, raw),
            PromptRequests(name, PromptArgs(name, raw), rpcUrl), NoResponse, NoOutcome,
            PromptResult(name, PromptArgs(name, raw)))]
  /\ UNCHANGED <<rpcUrl, server>>

\* startServer runs its next statement, which neither throws nor rejects.
Start ==
  /\ ~server.exited
  /\ server.step <= Len(StartOrder)
  /\ server' = AfterStatement(server, StartOrder[server.step])
  /\ rpcUrl' = IF StartOrder[server.step] = "registerTools"
               THEN RegisteredUrl(server.given) ELSE rpcUrl
  /\ UNCHANGED inv

\* startServer's next statement throws or rejects: the catch block logs and
\* ends the process.
StartFail ==
  /\ ~server.exited
  /\ server.step <= Len(StartOrder)
  /\ server' = AfterCatch(server)
  /\ UNCHANGED <<rpcUrl, inv>>

\* Every invocation a caller makes: a tool and the arguments given to it.
Invocations == { <<tool, raw>> : tool \in Tools, raw \in UNION { RawArgs(t) : t \in Tools } }

Refused == { c \in Invocations : c[2] \in RawArgs(c[1]) /\ ~Validates(c[1], c[2]) }

Accepted == { c \in Invocations : c[2] \in RawArgs(c[1]) /\ Validates(c[1], c[2]) }

RejectStep == \E i \in DOMAIN inv : \E c \in Refused : Reject(i, c[1], c[2])

CallStep == \E i \in DOMAIN inv : \E c \in Accepted : Call(i, c[1], c[2])

SettleStep == \E i \in DOMAIN inv : \E resp \in Responses(inv[i].tool) : Settle(i, resp)

DeliverStep == \E i \in DOMAIN inv : Deliver(i)

Next == RejectStep \/ CallStep \/ SettleStep \/ DeliverStep

Spec == Init /\ [][Next]_vars

\* One invocation at a time, against an endpoint that also answers with
\* results of every shape.
InitOne ==
  /\ \E given \in StartUrls : rpcUrl = RegisteredUrl(given) /\ server = Started(given)
  /\ inv = [i \in {1} |-> Idle]

SettleWideStep ==
  \E i \in DOMAIN inv : \E resp \in MoreResponses(inv[i].tool) : Settle(i, resp)

NextWide == Next \/ SettleWideStep

SpecWide == InitOne /\ [][NextWide]_vars

\* How many invocations run side by side where their interleavings are explored.
NumPair == 2

\* Invocations in flight together: a few tools, every answer to each.
PairTools == {"eth_blockNumber", "eth_getBlockByNumber", "shardeum_getCycleInfo"}

InitPair ==
  /\ \E given \in StartUrls : rpcUrl = RegisteredUrl(given) /\ server = Started(given)
  /\ inv = [i \in 1..NumPair |-> Idle]

PairCalls == { c \in Accepted : c[1] \in PairTools }

CallPairStep == \E i \in DOMAIN inv : \E c \in PairCalls : Call(i, c[1], c[2])

NextPair == CallPairStep \/ SettleStep \/ DeliverStep

SpecPair == InitPair /\ [][NextPair]_vars

\* The whole server from the start of startServer on: start-up, then prompts
\* and tools side by side.
\* What process.env.RPC_URL may hold: nothing, the empty string, a URL.
EnvUrls == { Undefined, Str(<<>>), Str(<<"http://localhost:8080">>) }

\* config.rpcUrl: a literal in index.js, `process.env.RPC_URL || <default>` in
\* the start.js the Dockerfile writes.
ConfigUrl(entry, env) ==
  IF entry = "index.js" THEN Str(<<"https://<add-network-name>.shardeum.org/">>)
  ELSE IF Truthy(env) THEN env
  ELSE Str(<<"https://api-testnet.shardeum.org/">>)

\* The rpcUrl registerTools may be given: none, or an entry point's config.
ServerUrls ==
  StartUrls \cup { ConfigUrl(entry, env) : entry \in {"index.js", "start.js"}, env \in EnvUrls }

InitServer ==
  /\ \E given \in ServerUrls : server = Starting(given)
  /\ rpcUrl = Undefined
  /\ inv = [i \in {1} |-> Idle]

\* Every request for a prompt a caller makes: a prompt and its arguments.
PromptCalls ==
  { <<name, raw>> : name \in Prompts, raw \in UNION { RawArgs(t) : t \in Tools } }

PromptsRefused ==
  { c \in PromptCalls : c[2] \in RawArgs(PromptTool(c[1])) /\ ~PromptValidates(c[1], c[2]) }

PromptsAccepted ==
  { c \in PromptCalls : c[2] \in RawArgs(PromptTool(c[1])) /\ PromptValidates(c[1], c[2]) }

PromptRejectStep == \E i \in DOMAIN inv : \E c \in PromptsRefused : PromptReject(i, c[1], c[2])

PromptStep == \E i \in DOMAIN inv : \E c \in PromptsAccepted : Prompt(i, c[1], c[2])

NextServer == Start \/ StartFail \/ PromptRejectStep \/ PromptStep \/ Next

SpecServer == InitServer /\ [][NextServer]_vars

(***************************************************************************)
(* The claims.                                                             *)
(***************************************************************************)
Slots == DOMAIN inv

\* The text of the one segment of a handler's result.
TextOf(out) == out.content[1].text

\* The handler returned an error-flagged result of one text segment that
\* holds the message.
ReportsFailure(out, message) ==
  /\ out.isError = Bool(TRUE)
  /\ Len(out.content) = 1
  /\ out.content[1].type = "text"
  /\ TextOf(out).t = "str"
  /\ Contains(TextOf(out).s, message)

\* The response of slot i carries an error object.
AnsweredWithErrorObject(i) ==
  /\ inv[i].pc = "returned"
  /\ inv[i].resp.kind = "resolves"
  /\ GetField(inv[i].resp.data, "error").t = "obj"

RemoteError(i) == GetField(inv[i].resp.data, "error")

\* C1: whichever tool was invoked, when the endpoint's response carries an
\* error object the handler returns a result whose isError flag is true and
\* whose single text segment contains the remote error message.
C1_ErrorObjectReported ==
  \A i \in Slots :
    AnsweredWithErrorObject(i) /\ GetField(RemoteError(i), "message").t = "str"
      => /\ inv[i].tool \in Tools
         /\ ReportsFailure(inv[i].out, GetField(RemoteError(i), "message").s)

C1_Witness ==
  \E i \in Slots :
    /\ AnsweredWithErrorObject(i)
    /\ inv[i].tool = "shardeum_getCycleInfo"
    /\ GetField(RemoteError(i), "message") = Str(<<"Method not found">>)
    /\ inv[i].out.isError = Bool(TRUE)

\* The fields of a tool that take an address.
AddressFields(tool) ==
  CASE tool \in {"eth_getBalance", "eth_getTransactionCount"} -> {"address"}
    [] tool = "eth_estimateGas" -> {"from", "to"}
    [] OTHER -> {}

\* A malformed address: of the wrong length, without the 0x prefix, or with a
\* character that is no hex digit.
Malformed(str) ==
  \/ Len(str) # 42
  \/ Len(str) < 2 \/ str[1] # "0" \/ str[2] # "x"
  \/ \E k \in 3..Len(str) : str[k] \notin HexChars

GivenMalformedAddress(i) ==
  /\ inv[i].pc # "idle"
  /\ \E f \in AddressFields(inv[i].tool) :
       inv[i].raw[f].t = "str" /\ Malformed(inv[i].raw[f].s)

\* C2: an address-taking tool given a malformed address is rejected, and no
\* request is posted for that invocation.
C2_MalformedAddressRejected ==
  \A i \in Slots : GivenMalformedAddress(i) => inv[i].pc = "rejected" /\ inv[i].sent = <<>>

C2_Witness ==
  \E i \in Slots :
    /\ inv[i].pc = "rejected"
    /\ inv[i].tool = "eth_estimateGas"
    /\ inv[i].raw["from"] = GoodAddress
    /\ inv[i].raw["to"] = LongAddress
    /\ inv[i].sent = <<>>

\* C3: an invocation posts at most one request over its whole life, also after
\* a transport failure or an RPC error, and it has returned only once that one
\* request has settled.
C3_SingleRequest ==
  \A i \in Slots :
    /\ Len(inv[i].sent) <= 1
    /\ inv[i].pc = "awaiting" => Len(inv[i].sent) = 1 /\ inv[i].out = NoPayload
    /\ inv[i].pc = "returned" => Len(inv[i].sent) = 1 /\ inv[i].resp.kind # "none"

C3_Witness ==
  \E i \in Slots :
    /\ inv[i].pc = "returned"
    /\ inv[i].resp.kind = "rejects"
    /\ inv[i].outcome.threw
    /\ Len(inv[i].sent) = 1

\* C4 as claimed: on an error object {code, message} makeRpcCall fails with an
\* error that carries the remote code and the remote message.
C4_CarriesCodeAndMessage ==
  \A i \in Slots :
    AnsweredWithErrorObject(i)
      => /\ inv[i].outcome.threw
         /\ Contains(inv[i].outcome.error.message, ToStr(GetField(RemoteError(i), "message")))
         /\ \/ inv[i].outcome.error.code = GetField(RemoteError(i), "code")
            \/ Contains(inv[i].outcome.error.message,
                        ToStr(GetField(RemoteError(i), "code")))

\* C4, amended: on an error object {code, message} makeRpcCall fails with an
\* Error whose message is "RPC Error: " followed by the remote message; the
\* remote code is in neither its message nor its code property.
C4_CarriesMessageOnly ==
  \A i \in Slots :
    AnsweredWithErrorObject(i)
      => /\ inv[i].outcome.threw
         /\ inv[i].outcome.error.name = "Error"
         /\ inv[i].outcome.error.message
              = <<"RPC Error: ">> \o ToStr(GetField(RemoteError(i), "message"))
         /\ inv[i].outcome.error.code = Undefined
         /\ ~Contains(inv[i].outcome.error.message,
                      ToStr(GetField(RemoteError(i), "code")))

C4_Witness ==
  \E i \in Slots :
    /\ AnsweredWithErrorObject(i)
    /\ GetField(RemoteError(i), "code") = Num(-32000)
    /\ inv[i].outcome.error.message = <<"RPC Error: ", "execution reverted">>

\* The invocation of slot i failed: its arguments were refused, or makeRpcCall
\* threw.
Failed(i) == inv[i].pc = "rejected" \/ (inv[i].pc = "returned" /\ inv[i].outcome.threw)

C6_BlockParameterDefault ==
  \A i \in Slots :
    inv[i].pc \in {"awaiting", "returned"}
    /\ inv[i].tool \in {"eth_getBalance", "eth_getTransactionCount"}
      => inv[i].sent[1].body.params
           = Arr(<< inv[i].raw["address"],
                    IF inv[i].raw["blockParameter"] = Undefined THEN Str(<<"latest">>)
                    ELSE inv[i].raw["blockParameter"] >>)

C6_Witness ==
  \E i \in Slots :
    /\ inv[i].pc = "awaiting"
    /\ inv[i].tool = "eth_getTransactionCount"
    /\ inv[i].raw["blockParameter"] = Undefined
    /\ inv[i].sent[1].body.params = Arr(<<GoodAddress, Str(<<"latest">>)>>)

\* The tool of slot i returned a success result for a hex quantity.
ReturnedQuantity(i) ==
  /\ inv[i].pc = "returned"
  /\ ~inv[i].outcome.threw
  /\ inv[i].outcome.value.t = "str"
  /\ MatchesQuantity(inv[i].outcome.value.s)

\* The hex digits of the quantity slot i's request was answered with.
QuantityDigits(i) == SubSeq(inv[i].outcome.value.s, 3, Len(inv[i].outcome.value.s))

\* C7: for every valid address and every hex balance the endpoint returns,
\* eth_getBalance reports the Wei as the exact decimal value of the hex string
\* and the ETH as that value divided by 10^18, rounded to 4 decimals.
C7_BalanceExact ==
  \A i \in Slots :
    ReturnedQuantity(i) /\ inv[i].tool = "eth_getBalance"
      => TextOf(inv[i].out)
           = Str(<<"Balance for ">> \o inv[i].raw["address"].s \o <<" at block ">>
                 \o inv[i].args["blockParameter"].s \o <<":\n- Wei: ">>
                 \o DecChars(HexDec(QuantityDigits(i))) \o <<"\n- ETH: ">>
                 \o Fixed4Chars(Units4(HexDec(QuantityDigits(i)))))

\* C8: for every hex-quantity tool other than the balance and every hex
\* quantity h returned, the text holds the decimal value of h and h itself.
C8_DecimalAndHexReported ==
  \A i \in Slots :
    ReturnedQuantity(i) /\ inv[i].tool \in HexQuantityTools \ {"eth_getBalance"}
      => /\ TextOf(inv[i].out).t = "str"
         /\ Contains(TextOf(inv[i].out).s,
                     DecChars(HexDec(QuantityDigits(i))) \o <<" (">>
                     \o inv[i].outcome.value.s \o <<")">>)

\* C9: for every structured-result tool and every result the endpoint returns,
\* the text of the success result is valid JSON that parses back to a value
\* equal to that result.
C9_JsonRoundTrip ==
  \A i \in Slots :
    ( /\ inv[i].pc = "returned"
      /\ inv[i].tool \in StructuredTools
      /\ ~inv[i].outcome.threw
      /\ GetField(inv[i].resp.data, "result") # Undefined )
      => /\ inv[i].out.isError = Undefined
         /\ TextOf(inv[i].out).t = "str"
         /\ JSONparse(TextOf(inv[i].out)).ok
         /\ JSONparse(TextOf(inv[i].out)).v = GetField(inv[i].resp.data, "result")

C9_Witness ==
  \E i \in Slots :
    /\ inv[i].pc = "returned"
    /\ inv[i].tool = "shardeum_getNodeList"
    /\ ~inv[i].outcome.threw
    /\ GetField(inv[i].resp.data, "result").t = "obj"
    /\ Len(GetField(inv[i].resp.data, "result").xs) = 3
    /\ JSONparse(TextOf(inv[i].out)).v = GetField(inv[i].resp.data, "result")

\* C10: every request posted, in any sequence of invocations, is a POST to the
\* configured endpoint whose body is exactly {jsonrpc: "2.0", id: 1, method,
\* params}; the id is 1 on every request.
C10_RequestEnvelope ==
  /\ rpcUrl \in {RegisteredUrl(given) : given \in StartUrls}
  /\ \A i \in Slots : \A k \in 1..Len(inv[i].sent) :
       /\ inv[i].sent[k].verb = "POST"
       /\ inv[i].sent[k].url = rpcUrl
       /\ DOMAIN inv[i].sent[k].body = {"jsonrpc", "id", "method", "params"}
       /\ inv[i].sent[k].body.jsonrpc = "2.0"
       /\ inv[i].sent[k].body.id = 1
       /\ inv[i].sent[k].body.method = inv[i].tool
       /\ inv[i].sent[k].body.params.t = "arr"

C10_Witness ==
  \E i \in Slots :
    /\ inv[i].pc = "returned"
    /\ rpcUrl # DEFAULT_RPC_URL
    /\ inv[i].sent[1].url = rpcUrl
    /\ inv[i].sent[1].body.id = 1
    /\ inv[i].sent[1].body.method = "eth_chainId"

\* The request of slot i was answered with a body, and the handler has returned.
AnsweredWithBody(i) ==
  /\ inv[i].pc = "returned"
  /\ inv[i].resp.kind = "resolves"
  /\ inv[i].resp.data.t = "obj"

\* C11: when the response carries no error, makeRpcCall returns the
\* response's result member unchanged, whatever its shape: a hex string, an
\* object, an array or null.
C11_ResultVerbatim ==
  \A i \in Slots :
    AnsweredWithBody(i) /\ GetField(inv[i].resp.data, "error") = Undefined
      => /\ ~inv[i].outcome.threw
         /\ inv[i].outcome.value = GetField(inv[i].resp.data, "result")

C11_Witness ==
  \E i \in Slots :
    /\ AnsweredWithBody(i)
    /\ GetField(inv[i].resp.data, "error") = Undefined
    /\ GetField(inv[i].resp.data, "result") = Null
    /\ inv[i].tool = "eth_getTransactionReceipt"
    /\ inv[i].outcome.value = Null

\* The tools whose handler passes its arguments one by one, in a list.
PositionalTools ==
  { tool \in Tools : Schema(tool) # <<>> }
  \ {"eth_estimateGas", "shardeum_getNodeList", "shardeum_getCycleInfo"}

\* The value the schema hands the handler for its k-th field.
Validated(i, k) ==
  IF inv[i].raw[Schema(inv[i].tool)[k].name] = Undefined
  THEN Schema(inv[i].tool)[k].default
  ELSE inv[i].raw[Schema(inv[i].tool)[k].name]

\* The request slot i posted.
Posted(i) == inv[i].sent[1].body

C16_CycleParams ==
  \A i \in Slots :
    inv[i].pc \in {"awaiting", "returned"} /\ inv[i].tool = "shardeum_getCycleInfo"
      => /\ Posted(i).params = Arr(<<>>) <=> inv[i].raw["cycleNumber"] = Undefined
         /\ inv[i].raw["cycleNumber"] # Undefined
              => Posted(i).params = Arr(<<inv[i].raw["cycleNumber"]>>)

C16_Witness ==
  \E i \in Slots :
    /\ inv[i].pc = "awaiting"
    /\ inv[i].tool = "shardeum_getCycleInfo"
    /\ inv[i].raw["cycleNumber"] = Num(0)
    /\ Posted(i).params = Arr(<<Num(0)>>)

\* The text of the message the prompt of slot i returned.
PromptTextOf(i) == inv[i].out.messages[1].content.text

\* The arguments of its schema the caller of slot i's prompt supplied.
SuppliedToPrompt(i) ==
  { a \in ArgNames :
      /\ inv[i].raw[a] # Undefined
      /\ \E k \in 1..Len(PromptSchema(inv[i].tool)) : PromptSchema(inv[i].tool)[k].name = a }

\* The prompt of slot i posted nothing and returned one user message whose
\* text names the method of its tool.
SingleUserMessage(i) ==
  /\ inv[i].sent = <<>>
  /\ inv[i].resp = NoResponse
  /\ DOMAIN inv[i].out = {"messages"}
  /\ Len(inv[i].out.messages) = 1
  /\ inv[i].out.messages[1].role = "user"
  /\ inv[i].out.messages[1].content.type = "text"
  /\ PromptTextOf(i).t = "str"
  /\ Contains(PromptTextOf(i).s, <<RpcMethod(PromptTool(inv[i].tool))>>)

\* C13 as claimed: a prompt posts no request and returns one user message
\* whose text names the RPC method of its tool and embeds every argument
\* supplied.
C13_PromptEmbedsAll ==
  \A i \in Slots :
    inv[i].pc = "prompted"
      => /\ SingleUserMessage(i)
         /\ \A a \in SuppliedToPrompt(i) : Contains(PromptTextOf(i).s, ToStr(inv[i].raw[a]))

\* The supplied arguments a prompt words instead of embedding: the data of
\* estimate_gas, the boolean fullTransactions, and a cycle number of 0.
WordedByPrompt(i) ==
  { a \in SuppliedToPrompt(i) :
      \/ a \in {"data", "fullTransactions"}
      \/ a = "cycleNumber" /\ ~Truthy(inv[i].raw[a]) }

\* C13, amended: a prompt, of whichever of the 17 names, posts no request; it
\* returns one user message whose text names the RPC method of its tool and
\* embeds every argument supplied other than estimate_gas's data, the
\* boolean fullTransactions and a cycleNumber of 0, which it puts in words.
C13_PromptPostsNothing ==
  \A i \in Slots :
    /\ inv[i].pc = "prompted"
         => /\ inv[i].tool \in Prompts
            /\ SingleUserMessage(i)
            /\ \A a \in SuppliedToPrompt(i) \ WordedByPrompt(i) :
                 Contains(PromptTextOf(i).s, ToStr(inv[i].raw[a]))
            /\ Truthy(inv[i].raw["data"])
                 => Contains(PromptTextOf(i).s, <<"- Custom data present">>)
            /\ inv[i].raw["fullTransactions"] = Bool(TRUE)
                 => Contains(PromptTextOf(i).s, <<"with full transaction information">>)
    /\ inv[i].pc = "rejected" /\ inv[i].tool \in Prompts => inv[i].sent = <<>>

C13_Witness ==
  \E i \in Slots :
    /\ inv[i].pc = "prompted"
    /\ inv[i].tool = "estimate_gas"
    /\ inv[i].raw["data"] = Hex(<<"a", "b">>)
    /\ inv[i].sent = <<>>
    /\ Contains(PromptTextOf(i).s, <<"Use ", "eth_estimateGas">>)
    /\ Contains(PromptTextOf(i).s, <<"- From: ">> \o GoodAddress.s)

\* registerTools has run.
ToolsRegistered == server.tools = Tools

SaidRunning ==
  \E k \in 1..Len(server.log) :
    server.log[k] = <<"shm-mcp", " MCP Server (v", "1.0.0", ") is running...">>

\* C18: all prompts and all tools are registered before the transport is
\* connected, so no request is served by an incomplete registry; when
\* registration or the connection fails the process exits with status 1 and
\* the "is running" line is never printed.
C18_RegisteredBeforeConnected ==
  /\ server.connected => server.prompts = Prompts /\ server.tools = Tools
  /\ \A i \in Slots :
       inv[i].pc # "idle" => server.prompts = Prompts /\ server.tools = Tools
  /\ server.exited => server.status = 1 /\ ~SaidRunning /\ ~server.connected
  /\ SaidRunning => server.connected /\ ~server.exited
  /\ (\E k \in 1..Len(server.log) : server.log[k] = <<"Failed to start MCP server:">>)
       => server.exited /\ server.status = 1

C18_Witness ==
  /\ server.exited
  /\ server.status = 1
  /\ server.step = 3
  /\ server.tools = Tools
  /\ server.prompts = Prompts
  /\ ~SaidRunning

\* The result the invocation of slot i has when it runs alone and its request
\* is answered with resp.
AloneResult(i, resp) ==
  HandlerResult(inv[i].tool, ParsedArgs(inv[i].tool, inv[i].raw), MakeRpcOutcome(resp))

\* C15: however concurrent invocations interleave, the result of each is the
\* one it has when run alone: it is determined by its own arguments and the
\* response to its own request, and its return changes no other invocation.
C15_Isolated ==
  [][\A i \in Slots :
       inv[i].pc = "awaiting" /\ inv'[i].pc = "returned"
         => /\ inv'[i].tool = inv[i].tool
            /\ inv'[i].raw = inv[i].raw
            /\ inv'[i].sent = inv[i].sent
            /\ inv'[i].out = AloneResult(i, inv'[i].resp)
            /\ \A j \in Slots \ {i} : inv'[j] = inv[j]]_vars

C15_Witness ==
  \E i \in Slots : \E j \in Slots \ {i} :
    /\ inv[i].pc = "awaiting"
    /\ inv[j].pc = "returned"
    /\ i < j
    /\ inv[i].tool = "eth_blockNumber"
    /\ inv[j].tool = "shardeum_getCycleInfo"
    /\ ~inv[j].outcome.threw
    /\ inv[j].out = AloneResult(j, inv[j].resp)

\* C17: every value a tool handler returns, on success or failure and for
\* every endpoint response, has at least one text segment whose text is a
\* string, and an error flag that is true exactly when the RPC call of the
\* invocation failed.
C17_PayloadShape ==
  \A i \in Slots :
    inv[i].pc = "returned"
      => /\ Len(inv[i].out.content) >= 1
         /\ \A k \in 1..Len(inv[i].out.content) :
              /\ inv[i].out.content[k].type = "text"
              /\ inv[i].out.content[k].text.t = "str"
         /\ inv[i].out.isError = Bool(TRUE) <=> inv[i].outcome.threw

\* C19: when a body carries both an error and a result, makeRpcCall fails
\* with the error and the handler never sees the result; a result is returned
\* only when the error member is absent or falsy.
C19_ErrorWins ==
  \A i \in Slots :
    AnsweredWithBody(i)
      => /\ Truthy(GetField(inv[i].resp.data, "error"))
              => /\ inv[i].outcome.threw
                 /\ inv[i].outcome.value = Undefined
                 /\ inv[i].outcome.error.message
                      = <<"RPC Error: ">>
                        \o ToStr(GetField(GetField(inv[i].resp.data, "error"), "message"))
                 /\ inv[i].out.isError = Bool(TRUE)
         /\ ~inv[i].outcome.threw
              => /\ ~Truthy(GetField(inv[i].resp.data, "error"))
                 /\ inv[i].outcome.value = GetField(inv[i].resp.data, "result")

C19_Witness ==
  \E i \in Slots :
    /\ AnsweredWithBody(i)
    /\ GetField(inv[i].resp.data, "result") = Hex(<<"1", "0">>)
    /\ GetField(inv[i].resp.data, "error") = ErrorObject(3, <<"reverted">>)
    /\ inv[i].outcome.threw
    /\ inv[i].outcome.value = Undefined
    /\ inv[i].tool = "eth_chainId"

\* C20: a hex-quantity tool never returns a non-error result that reports a
\* decimal value that is no number: when the endpoint's result is null,
\* missing or no hex string, the tool returns an error-flagged result.
C20_NoNaNReported ==
  \A i \in Slots :
    inv[i].pc = "returned" /\ inv[i].tool \in HexQuantityTools /\ ~inv[i].outcome.threw
      => /\ inv[i].out.isError # Bool(TRUE) => ~parseInt16(inv[i].outcome.value).nan
         /\ ~(inv[i].outcome.value.t = "str" /\ MatchesQuantity(inv[i].outcome.value.s))
              => inv[i].out.isError = Bool(TRUE)

\* The parameter list shardeum_getCycleInfo posts for the arguments the
\* caller of slot i's prompt supplied.
CycleToolParams(i) ==
  RpcParams("shardeum_getCycleInfo", ParsedArgs("shardeum_getCycleInfo", inv[i].raw))

\* C21: the shardeum_cycle_info prompt and the shardeum_getCycleInfo tool
\* agree on whether a cycle was specified: for every cycleNumber supplied,
\* 0 included, the text refers to that cycle number, just as the tool posts
\* [cycleNumber]; the text refers to "the current network cycle" only when
\* cycleNumber is omitted, just as the tool posts an empty list.
C21_PromptAgreesWithTool ==
  \A i \in Slots :
    inv[i].pc = "prompted" /\ inv[i].tool = "shardeum_cycle_info"
      => /\ PromptTool(inv[i].tool) = "shardeum_getCycleInfo"
         /\ Contains(PromptTextOf(i).s, <<"the current network cycle">>)
              <=> CycleToolParams(i) = Arr(<<>>)
         /\ inv[i].raw["cycleNumber"] # Undefined
              => /\ CycleToolParams(i) = Arr(<<inv[i].raw["cycleNumber"]>>)
                 /\ Contains(PromptTextOf(i).s,
                             <<"cycle number ">> \o ToStr(inv[i].raw["cycleNumber"]))

====
